---- MODULE Spec2Model ----
(***************************************************************************)
(* Reflexion-model engine: the in-memory graph (edges, adjacency,          *)
(* mapping table, propagation table), propagation, lifting, the            *)
(* full-recompute orchestrator and the naive incremental updaters.         *)
(***************************************************************************)
EXTENDS Integers, Sequences, FiniteSets, TLC

\* ------------------------------------------------------------------ bounds
\* architecture edges the loader may submit before analysis starts
MaxArchEdges == 2
\* implementation edges that may be present in the edge store at one time
MaxImplEdges == 2
\* edge handles are allocated 1, 2, ... and never reused; allocation stops here
MaxEdgeId == 6
\* standalone propagation calls are not issued once the propagated edges'
\* counters add up to this
MaxPropagations == 2

\* ------------------------------------------------------------ vocabulary
Architecture == "Architecture"
Implementation == "Implementation"
Propagated == "Propagated"

Undefined == "Undefined"
Specified == "Specified"
Convergent == "Convergent"
Divergent == "Divergent"
Absent == "Absent"
Allowed == "Allowed"
Unmapped == "Unmapped"

EdgeState == {Undefined, Specified, Convergent, Divergent, Absent, Allowed, Unmapped}

\* EdgeKind::calls() and EdgeKind::depends_on()
EdgeKind == {"calls", "depends_on"}

\* node handles as add_node returned them: two architecture nodes, two
\* implementation nodes
ArchNodes == {1, 2}
ImplNodes == {3, 4}
NodeIds == ArchNodes \cup ImplNodes

\* Option::None of a handle
None == 0

VARIABLES
    edges,              \* EdgeId -> Edge
    arch_out,           \* architecture node -> sequence of outgoing edge ids (arch + propagated)
    impl_out,           \* implementation node -> sequence of outgoing edge ids
    maps_to,            \* implementation node -> architecture node (partial)
    propagation_table,  \* propagated edge id -> set of implementation edge ids
    next_edge_id,       \* next handle add_edge hands out
    last,               \* the most recent call: operation, argument, result
    rerun,              \* TRUE iff the last two calls were both run_from_scratch
    rt                  \* add/remove round trip: stage 1 after a run (base = its
                        \* snapshot), 2 after an add that follows it (mid), 3
                        \* after the removal of the added edge that follows that

vars == <<edges, arch_out, impl_out, maps_to, propagation_table, next_edge_id, last, rerun, rt>>

\* the graph as one value
G == [edges |-> edges, arch_out |-> arch_out, impl_out |-> impl_out,
      maps_to |-> maps_to, propagation_table |-> propagation_table,
      next_edge_id |-> next_edge_id]

\* ---------------------------------------------------------------- results
OkRes == [tag |-> "Ok", id |-> None, expected |-> "-", found |-> "-", old |-> None, new |-> None]

OkVal(v) == [OkRes EXCEPT !.id = v]

EdgeNotFound(eid) == [OkRes EXCEPT !.tag = "EdgeNotFound", !.id = eid]

WrongSubgraph(n, exp, fnd) ==
    [OkRes EXCEPT !.tag = "WrongSubgraph", !.id = n, !.expected = exp, !.found = fnd]

MappingAlreadyExists(i, o, n) ==
    [OkRes EXCEPT !.tag = "MappingAlreadyExists", !.id = i, !.old = o, !.new = n]

IsOk(r) == r.tag = "Ok"

\* ------------------------------------------------------------ graph store
node_subgraph(n) == IF n \in ArchNodes THEN Architecture ELSE Implementation

mk_edge(from, to, subgraph, kind) ==
    [id |-> 0, from |-> from, to |-> to, kind |-> kind, subgraph |-> subgraph,
     state |-> Undefined, counter |-> 0]

\* ReflexionGraph::new() with the four nodes added
EmptyGraph ==
    [edges |-> <<>>,
     arch_out |-> [n \in ArchNodes |-> <<>>],
     impl_out |-> [n \in ImplNodes |-> <<>>],
     maps_to |-> <<>>,
     propagation_table |-> <<>>,
     next_edge_id |-> 1]

\* f with key k set to v (HashMap::insert)
Put(f, k, v) == [x \in DOMAIN f \cup {k} |-> IF x = k THEN v ELSE f[x]]

\* f without the keys in ks (HashMap::remove / retain)
Drop(f, ks) == [x \in DOMAIN f \ ks |-> f[x]]

Range(s) == {s[k] : k \in DOMAIN s}

\* Vec::retain on a sequence of edge ids
RECURSIVE Retain(_, _)
Retain(s, keep) ==
    IF s = <<>> THEN <<>>
    ELSE IF Head(s) \in keep THEN <<Head(s)>> \o Retain(Tail(s), keep)
    ELSE Retain(Tail(s), keep)

\* add_edge: endpoint typing is checked, the edge gets the next handle and is
\* pushed on the adjacency list of its source
add_edge(g, e) ==
    LET want == IF e.subgraph = Implementation THEN Implementation ELSE Architecture
        id == g.next_edge_id
    IN  IF node_subgraph(e.from) # want
        THEN [g |-> g, res |-> WrongSubgraph(e.from, want, node_subgraph(e.from))]
        ELSE IF node_subgraph(e.to) # want
        THEN [g |-> g, res |-> WrongSubgraph(e.to, want, node_subgraph(e.to))]
        ELSE [g |-> [g EXCEPT
                        !.edges = Put(g.edges, id, [e EXCEPT !.id = id]),
                        !.arch_out = IF want = Architecture
                                     THEN [@ EXCEPT ![e.from] = Append(@, id)]
                                     ELSE @,
                        !.impl_out = IF want = Implementation
                                     THEN [@ EXCEPT ![e.from] = Append(@, id)]
                                     ELSE @,
                        !.next_edge_id = id + 1],
              res |-> OkVal(id)]

\* clear_propagated_edges: propagated edges leave the edge store and the
\* architecture-space adjacency, and the propagation table is emptied
clear_propagated_edges(g) ==
    LET keep == {i \in DOMAIN g.edges : g.edges[i].subgraph # Propagated}
    IN  [g EXCEPT
            !.edges = [i \in keep |-> g.edges[i]],
            !.arch_out = [n \in DOMAIN g.arch_out |-> Retain(g.arch_out[n], keep)],
            !.propagation_table = <<>>]

\* init_states: architecture edges become Specified with counter 0,
\* implementation edges become Undefined
init_states(g) ==
    [g EXCEPT !.edges =
        [i \in DOMAIN g.edges |->
            IF g.edges[i].subgraph = Architecture
            THEN [g.edges[i] EXCEPT !.state = Specified, !.counter = 0]
            ELSE IF g.edges[i].subgraph = Implementation
            THEN [g.edges[i] EXCEPT !.state = Undefined]
            ELSE g.edges[i]]]

\* ------------------------------------------------------------ propagation
\* the scan of arch_out[from_arch] in get_or_create_propagated_edge and
\* lift_exact: the first edge id of `out` whose edge is of subgraph `sg` with
\* the wanted target and kind; an id missing from the edge store that is met
\* before a hit ends the scan with EdgeNotFound
RECURSIVE ScanOut(_, _, _, _, _)
ScanOut(g, out, sg, to, kind) ==
    IF out = <<>> THEN [tag |-> "none", id |-> None]
    ELSE LET eid == Head(out) IN
         IF eid \notin DOMAIN g.edges THEN [tag |-> "err", id |-> eid]
         ELSE IF /\ g.edges[eid].subgraph = sg
                 /\ g.edges[eid].to = to
                 /\ g.edges[eid].kind = kind
              THEN [tag |-> "found", id |-> eid]
              ELSE ScanOut(g, Tail(out), sg, to, kind)

OutOf(g, from_arch) ==
    IF from_arch \in DOMAIN g.arch_out THEN g.arch_out[from_arch] ELSE <<>>

\* faulty variant of get_or_create_propagated_edge: no lookup, a new
\* propagated edge on every call
get_or_create_propagated_edge_always_new(g, from_arch, to_arch, kind) ==
    add_edge(g, mk_edge(from_arch, to_arch, Propagated, kind))

\* the scan of get_or_create_propagated_edge with the subgraph comparison
\* left out
RECURSIVE ScanAnySubgraph(_, _, _, _)
ScanAnySubgraph(g, out, to, kind) ==
    IF out = <<>> THEN [tag |-> "none", id |-> None]
    ELSE LET eid == Head(out) IN
         IF eid \notin DOMAIN g.edges THEN [tag |-> "err", id |-> eid]
         ELSE IF g.edges[eid].to = to /\ g.edges[eid].kind = kind
              THEN [tag |-> "found", id |-> eid]
              ELSE ScanAnySubgraph(g, Tail(out), to, kind)

\* faulty variant of get_or_create_propagated_edge: an architecture edge with
\* the wanted target and kind is taken for the propagated edge
get_or_create_propagated_edge_any_subgraph(g, from_arch, to_arch, kind) ==
    LET hit == ScanAnySubgraph(g, OutOf(g, from_arch), to_arch, kind)
    IN  IF hit.tag = "err" THEN [g |-> g, res |-> EdgeNotFound(hit.id)]
        ELSE IF hit.tag = "found" THEN [g |-> g, res |-> OkVal(hit.id)]
        ELSE add_edge(g, mk_edge(from_arch, to_arch, Propagated, kind))

get_or_create_propagated_edge(g, from_arch, to_arch, kind) ==
    LET hit == ScanOut(g, OutOf(g, from_arch), Propagated, to_arch, kind)
    IN  IF hit.tag = "err" THEN [g |-> g, res |-> EdgeNotFound(hit.id)]
        ELSE IF hit.tag = "found" THEN [g |-> g, res |-> OkVal(hit.id)]
        ELSE add_edge(g, mk_edge(from_arch, to_arch, Propagated, kind))

\* faulty variant of RecordPropagation: the counter is set to 1 instead of
\* being incremented
RecordPropagationSetsOne(g, prop_id, impl_edge_id) ==
    LET old == IF prop_id \in DOMAIN g.propagation_table
               THEN g.propagation_table[prop_id] ELSE {}
    IN  [g EXCEPT
            !.edges = IF prop_id \in DOMAIN g.edges
                      THEN [@ EXCEPT ![prop_id].counter = 1]
                      ELSE @,
            !.propagation_table = Put(@, prop_id, old \cup {impl_edge_id})]

\* faulty variant of RecordPropagation: the counter is bumped, the
\* provenance set is not written
RecordPropagationNoProvenance(g, prop_id, impl_edge_id) ==
    [g EXCEPT
        !.edges = IF prop_id \in DOMAIN g.edges
                  THEN [@ EXCEPT ![prop_id].counter = @ + 1]
                  ELSE @]

\* faulty variant of RecordPropagation: the provenance set is replaced by
\* the one edge instead of extended by it
RecordPropagationReplaces(g, prop_id, impl_edge_id) ==
    [g EXCEPT
        !.edges = IF prop_id \in DOMAIN g.edges
                  THEN [@ EXCEPT ![prop_id].counter = @ + 1]
                  ELSE @,
        !.propagation_table = Put(@, prop_id, {impl_edge_id})]

\* the counter bump and the provenance insert of propagate_impl_edge
RecordPropagation(g, prop_id, impl_edge_id) ==
    LET old == IF prop_id \in DOMAIN g.propagation_table
               THEN g.propagation_table[prop_id] ELSE {}
    IN  [g EXCEPT
            !.edges = IF prop_id \in DOMAIN g.edges
                      THEN [@ EXCEPT ![prop_id].counter = @ + 1]
                      ELSE @,
            !.propagation_table = Put(@, prop_id, old \cup {impl_edge_id})]

\* faulty variant of MarkUnmapped: the edge is also struck from every
\* provenance set
MarkUnmappedForgets(g, impl_edge_id) ==
    IF impl_edge_id \in DOMAIN g.edges
    THEN [g EXCEPT !.edges[impl_edge_id].state = Unmapped,
                   !.propagation_table =
                        [p \in DOMAIN @ |-> @[p] \ {impl_edge_id}]]
    ELSE g

\* the None arm of the endpoint lookup: the edge is marked Unmapped
MarkUnmapped(g, impl_edge_id) ==
    IF impl_edge_id \in DOMAIN g.edges
    THEN [g EXCEPT !.edges[impl_edge_id].state = Unmapped]
    ELSE g

\* faulty variant of propagate_impl_edge: the subgraph of the edge is not
\* checked
propagate_impl_edge_any_subgraph(g, impl_edge_id) ==
    IF impl_edge_id \notin DOMAIN g.edges
    THEN [g |-> g, res |-> EdgeNotFound(impl_edge_id)]
    ELSE LET e == g.edges[impl_edge_id] IN
         IF e.from \notin DOMAIN g.maps_to
         THEN [g |-> MarkUnmapped(g, impl_edge_id), res |-> OkRes]
         ELSE IF e.to \notin DOMAIN g.maps_to
         THEN [g |-> MarkUnmapped(g, impl_edge_id), res |-> OkRes]
         ELSE LET got == get_or_create_propagated_edge(
                             g, g.maps_to[e.from], g.maps_to[e.to], e.kind)
              IN  IF ~IsOk(got.res) THEN got
                  ELSE [g |-> RecordPropagation(got.g, got.res.id, impl_edge_id),
                        res |-> OkRes]

propagate_impl_edge(g, impl_edge_id) ==
    IF impl_edge_id \notin DOMAIN g.edges
    THEN [g |-> g, res |-> EdgeNotFound(impl_edge_id)]
    ELSE LET e == g.edges[impl_edge_id] IN
         IF e.subgraph # Implementation
         THEN [g |-> g, res |-> WrongSubgraph(e.from, Implementation, e.subgraph)]
         ELSE IF e.from \notin DOMAIN g.maps_to
         THEN [g |-> MarkUnmapped(g, impl_edge_id), res |-> OkRes]
         ELSE IF e.to \notin DOMAIN g.maps_to
         THEN [g |-> MarkUnmapped(g, impl_edge_id), res |-> OkRes]
         ELSE LET got == get_or_create_propagated_edge(
                             g, g.maps_to[e.from], g.maps_to[e.to], e.kind)
              IN  IF ~IsOk(got.res) THEN got
                  ELSE [g |-> RecordPropagation(got.g, got.res.id, impl_edge_id),
                        res |-> OkRes]

\* ---------------------------------------------------------------- lifting
\* the scan of lift_exact with the kind comparison left out
RECURSIVE ScanAnyKind(_, _, _)
ScanAnyKind(g, out, to) ==
    IF out = <<>> THEN [tag |-> "none", id |-> None]
    ELSE LET eid == Head(out) IN
         IF eid \notin DOMAIN g.edges THEN [tag |-> "err", id |-> eid]
         ELSE IF g.edges[eid].subgraph = Architecture /\ g.edges[eid].to = to
              THEN [tag |-> "found", id |-> eid]
              ELSE ScanAnyKind(g, Tail(out), to)

\* faulty variant of lift_exact: an architecture edge of another kind matches
lift_exact_any_kind(g, from_arch, to_arch, kind) ==
    LET hit == ScanAnyKind(g, OutOf(g, from_arch), to_arch)
    IN  IF hit.tag = "err" THEN EdgeNotFound(hit.id)
        ELSE IF hit.tag = "found" THEN OkVal(hit.id)
        ELSE OkVal(None)

lift_exact(g, from_arch, to_arch, kind) ==
    LET hit == ScanOut(g, OutOf(g, from_arch), Architecture, to_arch, kind)
    IN  IF hit.tag = "err" THEN EdgeNotFound(hit.id)
        ELSE IF hit.tag = "found" THEN OkVal(hit.id)
        ELSE OkVal(None)

\* faulty variant of LiftConvergent: the counter of the matched architecture
\* edge is bumped, its state is not set
LiftConvergentCounterOnly(g, arch_eid, prop_id, impl_edge_id) ==
    [g EXCEPT !.edges =
        [i \in DOMAIN g.edges |->
            IF i = impl_edge_id THEN [g.edges[i] EXCEPT !.state = Allowed]
            ELSE IF i = prop_id THEN [g.edges[i] EXCEPT !.state = Allowed]
            ELSE IF i = arch_eid THEN [g.edges[i] EXCEPT !.counter = @ + 1]
            ELSE g.edges[i]]]

\* step 4 of propagate_and_lift, match found
LiftConvergent(g, arch_eid, prop_id, impl_edge_id) ==
    [g EXCEPT !.edges =
        [i \in DOMAIN g.edges |->
            IF i = impl_edge_id THEN [g.edges[i] EXCEPT !.state = Allowed]
            ELSE IF i = prop_id THEN [g.edges[i] EXCEPT !.state = Allowed]
            ELSE IF i = arch_eid
            THEN [g.edges[i] EXCEPT !.counter = @ + 1, !.state = Convergent]
            ELSE g.edges[i]]]

\* faulty variant of LiftDivergent: only the implementation edge is marked
LiftDivergentImplOnly(g, prop_id, impl_edge_id) ==
    [g EXCEPT !.edges =
        [i \in DOMAIN g.edges |->
            IF i = impl_edge_id
            THEN [g.edges[i] EXCEPT !.state = Divergent]
            ELSE g.edges[i]]]

\* step 4 of propagate_and_lift, no match
LiftDivergent(g, prop_id, impl_edge_id) ==
    [g EXCEPT !.edges =
        [i \in DOMAIN g.edges |->
            IF i = impl_edge_id \/ i = prop_id
            THEN [g.edges[i] EXCEPT !.state = Divergent]
            ELSE g.edges[i]]]

\* steps 3 and 4 of propagate_and_lift once prop_id is found
LiftOnto(g, prop_id, impl_edge_id) ==
    IF prop_id \notin DOMAIN g.edges
    THEN [g |-> g, res |-> EdgeNotFound(prop_id)]
    ELSE LET pe == g.edges[prop_id]
             m == lift_exact(g, pe.from, pe.to, pe.kind)
         IN  IF ~IsOk(m) THEN [g |-> g, res |-> m]
             ELSE IF m.id # None
             THEN [g |-> LiftConvergent(g, m.id, prop_id, impl_edge_id), res |-> OkRes]
             ELSE [g |-> LiftDivergent(g, prop_id, impl_edge_id), res |-> OkRes]

\* propagate_and_lift: the set of outcomes; find_map over the propagation
\* table (a HashMap) yields whichever key holding impl_edge_id is met first
propagate_and_lift(g, impl_edge_id) ==
    LET p == propagate_impl_edge(g, impl_edge_id) IN
    IF ~IsOk(p.res) THEN {p}
    ELSE IF impl_edge_id \notin DOMAIN p.g.edges
    THEN {[g |-> p.g, res |-> EdgeNotFound(impl_edge_id)]}
    ELSE IF p.g.edges[impl_edge_id].state = Unmapped THEN {p}
    ELSE LET holders == {q \in DOMAIN p.g.propagation_table :
                            impl_edge_id \in p.g.propagation_table[q]}
         IN  IF holders = {}
             THEN {[g |-> p.g, res |-> EdgeNotFound(impl_edge_id)]}
             ELSE {LiftOnto(p.g, q, impl_edge_id) : q \in holders}

\* ----------------------------------------------------------- orchestrator
ImplEdgeIds(g) == {i \in DOMAIN g.edges : g.edges[i].subgraph = Implementation}
ArchEdgeIds(g) == {i \in DOMAIN g.edges : g.edges[i].subgraph = Architecture}
PropEdgeIds(g) == {i \in DOMAIN g.edges : g.edges[i].subgraph = Propagated}

\* every order in which iterating a HashMap can yield the ids in S
RECURSIVE Orders(_)
Orders(S) ==
    IF S = {} THEN {<<>>}
    ELSE UNION {{<<x>> \o o : o \in Orders(S \ {x})} : x \in S}

\* the for loop of run_from_scratch; the Result of propagate_and_lift is dropped
RECURSIVE ClassifyAll(_, _)
ClassifyAll(gs, order) ==
    IF order = <<>> THEN gs
    ELSE ClassifyAll(
            UNION {{o.g : o \in propagate_and_lift(h, Head(order))} : h \in gs},
            Tail(order))

\* run_from_scratch up to the call of finalize_architecture_states: the
\* graphs the loop can end in
BeforeFinalize(g, order) ==
    ClassifyAll({init_states(clear_propagated_edges(g))}, order)

\* the Results the propagate_and_lift calls of the loop can return, which
\* run_from_scratch drops
RECURSIVE LoopResults(_, _)
LoopResults(gs, order) ==
    IF order = <<>> THEN {}
    ELSE {o.res : o \in UNION {propagate_and_lift(h, Head(order)) : h \in gs}}
         \cup LoopResults(
                UNION {{o.g : o \in propagate_and_lift(h, Head(order))} : h \in gs},
                Tail(order))

\* faulty variant of finalize_architecture_states: the state of the edge is
\* not looked at, every architecture edge is normalised by its counter
finalize_architecture_states_any_state(g) ==
    [g EXCEPT !.edges =
        [i \in DOMAIN g.edges |->
            IF g.edges[i].subgraph # Architecture THEN g.edges[i]
            ELSE IF g.edges[i].counter = 0
            THEN [g.edges[i] EXCEPT !.state = Absent]
            ELSE [g.edges[i] EXCEPT !.state = Convergent]]]

\* faulty variant of finalize_architecture_states: an edge nothing was lifted
\* onto is left Specified
finalize_architecture_states_keeps_specified(g) ==
    [g EXCEPT !.edges =
        [i \in DOMAIN g.edges |->
            IF g.edges[i].subgraph # Architecture THEN g.edges[i]
            ELSE IF g.edges[i].state = Specified /\ g.edges[i].counter > 0
            THEN [g.edges[i] EXCEPT !.state = Convergent]
            ELSE g.edges[i]]]

finalize_architecture_states(g) ==
    [g EXCEPT !.edges =
        [i \in DOMAIN g.edges |->
            IF g.edges[i].subgraph # Architecture THEN g.edges[i]
            ELSE IF g.edges[i].state = Specified /\ g.edges[i].counter = 0
            THEN [g.edges[i] EXCEPT !.state = Absent]
            ELSE IF g.edges[i].state = Specified /\ g.edges[i].counter > 0
            THEN [g.edges[i] EXCEPT !.state = Convergent]
            ELSE g.edges[i]]]

\* faulty variant of run_from_scratch: the propagated edges of the previous
\* run are not cleared first
run_from_scratch_no_clear(g, order) ==
    {finalize_architecture_states(h) : h \in ClassifyAll({init_states(g)}, order)}

\* faulty variant of run_from_scratch: the loop skips the first edge of the
\* snapshot
run_from_scratch_skip_first(g, order) ==
    {finalize_architecture_states(h) :
        h \in ClassifyAll({init_states(clear_propagated_edges(g))},
                          IF order = <<>> THEN order ELSE Tail(order))}

\* run_from_scratch with the implementation edges snapshotted in `order`:
\* the set of graphs it can end in; it returns Ok(()) in each
run_from_scratch(g, order) ==
    {finalize_architecture_states(h) :
        h \in ClassifyAll({init_states(clear_propagated_edges(g))}, order)}

\* EdgeState::is_violation
is_violation(state) == state \in {Divergent, Absent}

\* faulty variant of count_violations: propagated edges are passed over
count_violations_skips_propagated(g) ==
    Cardinality({i \in DOMAIN g.edges :
                    g.edges[i].subgraph # Propagated /\ is_violation(g.edges[i].state)})

count_violations(g) ==
    Cardinality({i \in DOMAIN g.edges : is_violation(g.edges[i].state)})

\* ---------------------------------------------------- incremental updater
\* faulty variant of add_impl_edge_and_recompute: the edge is stored, nothing
\* is recomputed
add_impl_edge_no_recompute(g, edge) ==
    IF edge.subgraph # Implementation
    THEN {[g |-> g, res |-> WrongSubgraph(edge.from, Implementation, edge.subgraph)]}
    ELSE {add_edge(g, edge)}

\* faulty variant of remove_impl_edge_and_recompute: the edge is dropped,
\* nothing is recomputed
remove_impl_edge_no_recompute(g, edge_id) ==
    IF edge_id \notin DOMAIN g.edges
    THEN {[g |-> g, res |-> EdgeNotFound(edge_id)]}
    ELSE LET e == g.edges[edge_id] IN
         IF e.subgraph # Implementation
         THEN {[g |-> g, res |-> WrongSubgraph(e.from, Implementation, e.subgraph)]}
         ELSE {[g |-> [g EXCEPT
                          !.edges = Drop(@, {edge_id}),
                          !.impl_out = IF e.from \in DOMAIN @
                                       THEN [@ EXCEPT ![e.from] =
                                                Retain(@, Range(@) \ {edge_id})]
                                       ELSE @],
                res |-> OkRes]}

\* faulty variant of add_impl_edge_and_recompute: the recompute propagates
\* and lifts every edge again without resetting states and counters first
add_impl_edge_recompute_no_reset(g, edge) ==
    IF edge.subgraph # Implementation
    THEN {[g |-> g, res |-> WrongSubgraph(edge.from, Implementation, edge.subgraph)]}
    ELSE LET a == add_edge(g, edge) IN
         IF ~IsOk(a.res) THEN {a}
         ELSE LET c == clear_propagated_edges(a.g) IN
              UNION {{[g |-> finalize_architecture_states(h), res |-> OkVal(a.res.id)] :
                        h \in ClassifyAll({c}, o)} :
                            o \in Orders(ImplEdgeIds(c))}

\* outcomes of add_impl_edge_and_recompute, the recompute snapshotting the
\* implementation edges in an order of its own
add_impl_edge_and_recompute(g, edge) ==
    IF edge.subgraph # Implementation
    THEN {[g |-> g, res |-> WrongSubgraph(edge.from, Implementation, edge.subgraph)]}
    ELSE LET a == add_edge(g, edge) IN
         IF ~IsOk(a.res) THEN {a}
         ELSE LET c == clear_propagated_edges(a.g) IN
              UNION {{[g |-> h, res |-> OkVal(a.res.id)] : h \in run_from_scratch(c, o)} :
                        o \in Orders(ImplEdgeIds(c))}

\* faulty variant of remove_impl_edge_and_recompute: the subgraph of the edge
\* is not checked
remove_impl_edge_any_subgraph(g, edge_id) ==
    IF edge_id \notin DOMAIN g.edges
    THEN {[g |-> g, res |-> EdgeNotFound(edge_id)]}
    ELSE LET e == g.edges[edge_id]
             r == [g EXCEPT
                      !.edges = Drop(@, {edge_id}),
                      !.impl_out = IF e.from \in DOMAIN @
                                   THEN [@ EXCEPT ![e.from] =
                                            Retain(@, Range(@) \ {edge_id})]
                                   ELSE @]
             c == clear_propagated_edges(r)
         IN  UNION {{[g |-> h, res |-> OkRes] : h \in run_from_scratch(c, o)} :
                       o \in Orders(ImplEdgeIds(c))}

\* faulty variant of remove_impl_edge_and_recompute: the handle is left in
\* the adjacency list of the edge's source
remove_impl_edge_keeps_adjacency(g, edge_id) ==
    IF edge_id \notin DOMAIN g.edges
    THEN {[g |-> g, res |-> EdgeNotFound(edge_id)]}
    ELSE LET e == g.edges[edge_id] IN
         IF e.subgraph # Implementation
         THEN {[g |-> g, res |-> WrongSubgraph(e.from, Implementation, e.subgraph)]}
         ELSE LET r == [g EXCEPT !.edges = Drop(@, {edge_id})]
                  c == clear_propagated_edges(r)
              IN  UNION {{[g |-> h, res |-> OkRes] : h \in run_from_scratch(c, o)} :
                            o \in Orders(ImplEdgeIds(c))}

\* faulty variant of remove_impl_edge_and_recompute: the mapping entries of
\* the removed edge's endpoints are dropped with the edge
remove_impl_edge_unmaps_endpoints(g, edge_id) ==
    IF edge_id \notin DOMAIN g.edges
    THEN {[g |-> g, res |-> EdgeNotFound(edge_id)]}
    ELSE LET e == g.edges[edge_id] IN
         IF e.subgraph # Implementation
         THEN {[g |-> g, res |-> WrongSubgraph(e.from, Implementation, e.subgraph)]}
         ELSE LET r == [g EXCEPT
                            !.edges = Drop(@, {edge_id}),
                            !.maps_to = Drop(@, {e.from, e.to}),
                            !.impl_out = IF e.from \in DOMAIN @
                                         THEN [@ EXCEPT ![e.from] =
                                                  Retain(@, Range(@) \ {edge_id})]
                                         ELSE @]
                  c == clear_propagated_edges(r)
              IN  UNION {{[g |-> h, res |-> OkRes] : h \in run_from_scratch(c, o)} :
                            o \in Orders(ImplEdgeIds(c))}

remove_impl_edge_and_recompute(g, edge_id) ==
    IF edge_id \notin DOMAIN g.edges
    THEN {[g |-> g, res |-> EdgeNotFound(edge_id)]}
    ELSE LET e == g.edges[edge_id] IN
         IF e.subgraph # Implementation
         THEN {[g |-> g, res |-> WrongSubgraph(e.from, Implementation, e.subgraph)]}
         ELSE LET r == [g EXCEPT
                            !.edges = Drop(@, {edge_id}),
                            !.impl_out = IF e.from \in DOMAIN @
                                         THEN [@ EXCEPT ![e.from] =
                                                  Retain(@, Range(@) \ {edge_id})]
                                         ELSE @]
                  c == clear_propagated_edges(r)
              IN  UNION {{[g |-> h, res |-> OkRes] : h \in run_from_scratch(c, o)} :
                            o \in Orders(ImplEdgeIds(c))}

\* ---------------------------------------------------------- mapping table
\* faulty variant of expect_impl_node: no check of the subgraph
expect_impl_node_accepts_all(n) == OkRes

expect_impl_node(n) ==
    IF node_subgraph(n) # Implementation
    THEN WrongSubgraph(n, Implementation, node_subgraph(n))
    ELSE OkRes

expect_arch_node(n) ==
    IF node_subgraph(n) # Architecture
    THEN WrongSubgraph(n, Architecture, node_subgraph(n))
    ELSE OkRes

validate_impl_node(n) ==
    IF node_subgraph(n) # Implementation
    THEN WrongSubgraph(n, Implementation, node_subgraph(n))
    ELSE OkRes

validate_arch_node(n) ==
    IF node_subgraph(n) # Architecture
    THEN WrongSubgraph(n, Architecture, node_subgraph(n))
    ELSE OkRes

\* faulty variant of set_mapping: an existing entry is silently replaced
set_mapping_silent_overwrite(g, impl_node, arch_node) ==
    IF ~IsOk(expect_impl_node(impl_node))
    THEN [g |-> g, res |-> expect_impl_node(impl_node)]
    ELSE IF ~IsOk(expect_arch_node(arch_node))
    THEN [g |-> g, res |-> expect_arch_node(arch_node)]
    ELSE [g |-> [g EXCEPT !.maps_to = Put(@, impl_node, arch_node)], res |-> OkRes]

set_mapping(g, impl_node, arch_node) ==
    IF ~IsOk(expect_impl_node(impl_node))
    THEN [g |-> g, res |-> expect_impl_node(impl_node)]
    ELSE IF ~IsOk(expect_arch_node(arch_node))
    THEN [g |-> g, res |-> expect_arch_node(arch_node)]
    ELSE IF impl_node \notin DOMAIN g.maps_to
    THEN [g |-> [g EXCEPT !.maps_to = Put(@, impl_node, arch_node)], res |-> OkRes]
    ELSE IF g.maps_to[impl_node] = arch_node
    THEN [g |-> g, res |-> OkRes]
    ELSE [g |-> g,
          res |-> MappingAlreadyExists(impl_node, g.maps_to[impl_node], arch_node)]

\* faulty variant of set_mapping_overwrite: an existing entry is kept
\* (insert only when vacant)
set_mapping_overwrite_keeps_old(g, impl_node, arch_node) ==
    IF ~IsOk(validate_impl_node(impl_node))
    THEN [g |-> g, res |-> validate_impl_node(impl_node)]
    ELSE IF ~IsOk(validate_arch_node(arch_node))
    THEN [g |-> g, res |-> validate_arch_node(arch_node)]
    ELSE IF impl_node \in DOMAIN g.maps_to
    THEN [g |-> g, res |-> OkVal(g.maps_to[impl_node])]
    ELSE [g |-> [g EXCEPT !.maps_to = Put(@, impl_node, arch_node)],
          res |-> OkVal(None)]

\* faulty variant of set_mapping_overwrite: the target is not validated
set_mapping_overwrite_unchecked_target(g, impl_node, arch_node) ==
    IF ~IsOk(validate_impl_node(impl_node))
    THEN [g |-> g, res |-> validate_impl_node(impl_node)]
    ELSE [g |-> [g EXCEPT !.maps_to = Put(@, impl_node, arch_node)],
          res |-> OkVal(IF impl_node \in DOMAIN g.maps_to
                        THEN g.maps_to[impl_node] ELSE None)]

set_mapping_overwrite(g, impl_node, arch_node) ==
    IF ~IsOk(validate_impl_node(impl_node))
    THEN [g |-> g, res |-> validate_impl_node(impl_node)]
    ELSE IF ~IsOk(validate_arch_node(arch_node))
    THEN [g |-> g, res |-> validate_arch_node(arch_node)]
    ELSE [g |-> [g EXCEPT !.maps_to = Put(@, impl_node, arch_node)],
          res |-> OkVal(IF impl_node \in DOMAIN g.maps_to
                        THEN g.maps_to[impl_node] ELSE None)]

remove_mapping(g, impl_node) ==
    IF ~IsOk(expect_impl_node(impl_node))
    THEN [g |-> g, res |-> expect_impl_node(impl_node)]
    ELSE [g |-> [g EXCEPT !.maps_to = Drop(@, {impl_node})],
          res |-> OkVal(IF impl_node \in DOMAIN g.maps_to
                        THEN g.maps_to[impl_node] ELSE None)]

clear_mappings(g) == [g EXCEPT !.maps_to = <<>>]

get_arch_node(g, impl_node) ==
    IF ~IsOk(expect_impl_node(impl_node))
    THEN expect_impl_node(impl_node)
    ELSE OkVal(IF impl_node \in DOMAIN g.maps_to THEN g.maps_to[impl_node] ELSE None)

is_mapped(g, impl_node) ==
    IF ~IsOk(expect_impl_node(impl_node))
    THEN expect_impl_node(impl_node)
    ELSE OkVal(impl_node \in DOMAIN g.maps_to)

\* the error of one entry of the mapping table, Ok when it has none
validate_entry(impl_node, arch_node) ==
    IF ~IsOk(validate_impl_node(impl_node)) THEN validate_impl_node(impl_node)
    ELSE validate_arch_node(arch_node)

\* validate_all_mappings: the results it can return; the table is a HashMap,
\* so whichever bad entry the iteration meets first gives the error
validate_all_mappings(g) ==
    LET bad == {i \in DOMAIN g.maps_to : ~IsOk(validate_entry(i, g.maps_to[i]))}
    IN  IF bad = {} THEN {OkRes}
        ELSE {validate_entry(i, g.maps_to[i]) : i \in bad}

\* ------------------------------------------------------------ loader input
\* (from, to, kind) of the architecture edges the loader may submit
ArchInputs == {<<1, 2, "calls">>, <<1, 2, "depends_on">>}

\* (from, to, kind) of the implementation edges the loader or the
\* incremental updater may submit
ImplInputs == {<<3, 4, "calls">>, <<4, 3, "calls">>}

\* (implementation node, architecture node) pairs the caller maps
MappingInputs == {<<3, 1>>, <<4, 1>>, <<4, 2>>}

SeqsUpTo(S, n) == UNION {[1..k -> S] : k \in 0..n}

\* the loader's add_edge calls, one per entry of `seq`
RECURSIVE Load(_, _, _)
Load(g, seq, sg) ==
    IF seq = <<>> THEN g
    ELSE Load(add_edge(g, mk_edge(Head(seq)[1], Head(seq)[2], sg, Head(seq)[3])).g,
              Tail(seq), sg)

\* ----------------------------------------------------------------- actions
\* state and counter of every architecture and implementation edge
Snapshot(g) ==
    [i \in ArchEdgeIds(g) \cup ImplEdgeIds(g) |-> <<g.edges[i].state, g.edges[i].counter>>]

\* some propagated edge of g was derived under another mapping: its provenance
\* set is not the set of implementation edges that project onto it now
StaleSynthetic(g) ==
    \E p \in PropEdgeIds(g) :
        (IF p \in DOMAIN g.propagation_table THEN g.propagation_table[p] ELSE {})
        # {i \in ImplEdgeIds(g) :
                /\ g.edges[i].from \in DOMAIN g.maps_to
                /\ g.edges[i].to \in DOMAIN g.maps_to
                /\ g.maps_to[g.edges[i].from] = g.edges[p].from
                /\ g.maps_to[g.edges[i].to] = g.edges[p].to
                /\ g.edges[i].kind = g.edges[p].kind}

NoTrack == [stage |-> 0, base |-> <<>>, mid |-> <<>>, id |-> None, stale |-> FALSE]

Call(op, arg, arg2, res) == [op |-> op, arg |-> arg, arg2 |-> arg2, res |-> res]

\* the graph becomes h, the call is recorded
Becomes(h, call, track) ==
    /\ edges' = h.edges
    /\ arch_out' = h.arch_out
    /\ impl_out' = h.impl_out
    /\ maps_to' = h.maps_to
    /\ propagation_table' = h.propagation_table
    /\ next_edge_id' = h.next_edge_id
    /\ last' = call
    /\ rerun' = (call.op = "run_from_scratch" /\ last.op = "run_from_scratch")
    /\ rt' = track

Init ==
    \E as \in SeqsUpTo(ArchInputs, MaxArchEdges) :
    \E is \in SeqsUpTo(ImplInputs, MaxImplEdges - 1) :
        LET g0 == Load(Load(EmptyGraph, as, Architecture), is, Implementation) IN
        /\ edges = g0.edges
        /\ arch_out = g0.arch_out
        /\ impl_out = g0.impl_out
        /\ maps_to = g0.maps_to
        /\ propagation_table = g0.propagation_table
        /\ next_edge_id = g0.next_edge_id
        /\ last = Call("new", None, None, OkRes)
        /\ rerun = FALSE
        /\ rt = NoTrack

RunFromScratch ==
    \E o \in Orders(ImplEdgeIds(G)) :
    \E h \in run_from_scratch(G, o) :
        /\ h.next_edge_id <= MaxEdgeId + 1
        /\ Becomes(h, Call("run_from_scratch", None, None, OkRes),
                   [stage |-> 1, base |-> Snapshot(h), mid |-> <<>>, id |-> None,
                    stale |-> StaleSynthetic(G)])

AddImplEdgeAndRecompute ==
    /\ Cardinality(ImplEdgeIds(G)) < MaxImplEdges
    /\ \E t \in ImplInputs :
       \E o \in add_impl_edge_and_recompute(G, mk_edge(t[1], t[2], Implementation, t[3])) :
        /\ o.g.next_edge_id <= MaxEdgeId + 1
        /\ Becomes(o.g, Call("add_impl_edge_and_recompute", None, None, o.res),
                   IF rt.stage = 1 /\ IsOk(o.res)
                   THEN [stage |-> 2, base |-> rt.base, mid |-> Snapshot(o.g), id |-> o.res.id,
                         stale |-> FALSE]
                   ELSE NoTrack)

\* edge handles a caller passes: the implementation edges in the store
EdgeArgs == ImplEdgeIds(G)

RemoveImplEdgeAndRecompute ==
    \E id \in EdgeArgs :
    \E o \in remove_impl_edge_and_recompute(G, id) :
        /\ o.g.next_edge_id <= MaxEdgeId + 1
        /\ Becomes(o.g, Call("remove_impl_edge_and_recompute", id, None, o.res),
                   IF rt.stage = 2 /\ rt.id = id /\ IsOk(o.res)
                   THEN [stage |-> 3, base |-> rt.base, mid |-> rt.mid, id |-> id, stale |-> FALSE]
                   ELSE NoTrack)

\* the sum of the counters of the edges in ids
RECURSIVE CounterSum(_, _)
CounterSum(g, ids) ==
    IF ids = {} THEN 0
    ELSE LET i == CHOOSE x \in ids : TRUE
         IN  g.edges[i].counter + CounterSum(g, ids \ {i})

\* direct calls are explored until the propagated counters add up to the bound
PropBudget == CounterSum(G, PropEdgeIds(G)) < MaxPropagations

PropagateImplEdge ==
    /\ PropBudget
    /\ \E id \in EdgeArgs :
        LET o == propagate_impl_edge(G, id) IN
        /\ o.g.next_edge_id <= MaxEdgeId + 1
        /\ Becomes(o.g, Call("propagate_impl_edge", id, None, o.res), NoTrack)

PropagateAndLift ==
    /\ PropBudget
    /\ \E id \in EdgeArgs :
       \E o \in propagate_and_lift(G, id) :
        /\ o.g.next_edge_id <= MaxEdgeId + 1
        /\ Becomes(o.g, Call("propagate_and_lift", id, None, o.res), NoTrack)

SetMappingOverwrite ==
    \E m \in MappingInputs :
        LET i == m[1]
            a == m[2]
            o == set_mapping_overwrite(G, i, a) IN
        Becomes(o.g, Call("set_mapping_overwrite", None, None, OkRes), NoTrack)

RemoveMapping ==
    \E i \in ImplNodes :
        LET o == remove_mapping(G, i) IN
        Becomes(o.g, Call("remove_mapping", None, None, OkRes), NoTrack)

\* the mapping operations called with any node of the graph
SetMapping ==
    \E i \in NodeIds, a \in NodeIds :
        LET o == set_mapping(G, i, a) IN
        Becomes(o.g, Call("set_mapping", i, a, o.res), NoTrack)

OverwriteMapping ==
    \E i \in NodeIds, a \in NodeIds :
        LET o == set_mapping_overwrite(G, i, a) IN
        Becomes(o.g, Call("set_mapping_overwrite", i, a, o.res), NoTrack)

GetArchNode ==
    \E i \in NodeIds :
        Becomes(G, Call("get_arch_node", i, None, get_arch_node(G, i)), NoTrack)

IsMapped ==
    \E i \in NodeIds :
        Becomes(G, Call("is_mapped", i, None, is_mapped(G, i)), NoTrack)

RemoveMappingOf ==
    \E i \in NodeIds :
        LET o == remove_mapping(G, i) IN
        Becomes(o.g, Call("remove_mapping", i, None, o.res), NoTrack)

ClearMappings ==
    Becomes(clear_mappings(G), Call("clear_mappings", None, None, OkRes), NoTrack)

\* init_states() and finalize_architecture_states() called on their own, as
\* the unit test of lifting.rs resets a loaded graph
InitStates ==
    Becomes(init_states(G), Call("init_states", None, None, OkRes), NoTrack)

FinalizeArchitectureStates ==
    Becomes(finalize_architecture_states(G),
            Call("finalize_architecture_states", None, None, OkRes), NoTrack)

\* edge handles a caller must not pass: architecture and propagated edges,
\* and a handle that is not in the edge store
BadEdgeArgs == (DOMAIN edges \ ImplEdgeIds(G)) \cup {next_edge_id}

\* edges a caller must not hand to the incremental updater
BadEdgeInputs ==
    {mk_edge(t[1], t[2], sg, t[3]) :
        t \in ArchInputs \cup ImplInputs, sg \in {Architecture, Propagated}}

PropagateBadEdge ==
    \E id \in BadEdgeArgs :
        LET o == propagate_impl_edge(G, id) IN
        Becomes(o.g, Call("propagate_impl_edge", id, None, o.res), NoTrack)

AddBadEdge ==
    \E e \in BadEdgeInputs :
    \E o \in add_impl_edge_and_recompute(G, e) :
        Becomes(o.g, Call("add_impl_edge_and_recompute", e.from, e.subgraph, o.res),
                NoTrack)

RemoveBadEdge ==
    \E id \in BadEdgeArgs :
    \E o \in remove_impl_edge_and_recompute(G, id) :
        Becomes(o.g, Call("remove_impl_edge_and_recompute", id, None, o.res), NoTrack)

Next ==
    \/ RunFromScratch
    \/ AddImplEdgeAndRecompute
    \/ RemoveImplEdgeAndRecompute
    \/ SetMappingOverwrite
    \/ RemoveMapping

Spec == Init /\ [][Next]_vars

\* the propagation engine and the lifting engine called directly on a loaded
\* graph, as the unit tests of propagate.rs and lifting.rs do
NextProp ==
    \/ PropagateImplEdge
    \/ PropagateAndLift
    \/ PropBudget /\ SetMappingOverwrite
    \/ PropBudget /\ RemoveMapping

PropSpec == Init /\ [][NextProp]_vars

\* the mapping table driven through its whole interface, with valid and
\* invalid node arguments, as the unit tests of mapping.rs do
NextMap ==
    \/ SetMapping
    \/ OverwriteMapping
    \/ GetArchNode
    \/ IsMapped
    \/ RemoveMappingOf
    \/ ClearMappings

MapSpec == Init /\ [][NextMap]_vars

\* reset, lifting and normalisation called one by one on a loaded graph
NextUnit ==
    \/ PropBudget /\ SetMappingOverwrite
    \/ PropagateAndLift
    \/ InitStates
    \/ FinalizeArchitectureStates

UnitSpec == Init /\ [][NextUnit]_vars

\* the propagation engine and the incremental updaters called with handles
\* and edges of the wrong kind, on loaded and on classified graphs
NextErr ==
    \/ SetMappingOverwrite
    \/ RunFromScratch
    \/ PropagateBadEdge
    \/ AddBadEdge
    \/ RemoveBadEdge

ErrSpec == Init /\ [][NextErr]_vars

\* ------------------------------------------------------------- properties
Triple(g, i) == <<g.edges[i].from, g.edges[i].to, g.edges[i].kind>>

\* both endpoints of implementation edge i are mapped
Mapped(g, i) ==
    g.edges[i].from \in DOMAIN g.maps_to /\ g.edges[i].to \in DOMAIN g.maps_to

\* the (source, target, kind) implementation edge i projects onto
MappedTriple(g, i) ==
    <<g.maps_to[g.edges[i].from], g.maps_to[g.edges[i].to], g.edges[i].kind>>

\* the implementation edges projecting onto triple t
Projecting(g, t) == {i \in ImplEdgeIds(g) : Mapped(g, i) /\ MappedTriple(g, i) = t}

\* provenance set of propagated edge p
Prov(g, p) ==
    IF p \in DOMAIN g.propagation_table THEN g.propagation_table[p] ELSE {}

\* the propagated edges by what they are, not by their handle
PropView(g) ==
    {[triple |-> Triple(g, p), state |-> g.edges[p].state,
      counter |-> g.edges[p].counter, prov |-> Prov(g, p)] : p \in PropEdgeIds(g)}

AfterRun == last.op = "run_from_scratch"

AfterRecompute ==
    /\ last.op \in {"run_from_scratch", "add_impl_edge_and_recompute",
                    "remove_impl_edge_and_recompute"}
    /\ IsOk(last.res)

\* C1 (idempotence): a run_from_scratch() that directly follows another
\* run_from_scratch() leaves every architecture and implementation edge with
\* the state and counter the first run gave it, and the propagated edges are
\* the same (source, target, kind) triples with the same states, counters and
\* provenance sets.
C1_Idempotence ==
    [][(last.op = "run_from_scratch" /\ last'.op = "run_from_scratch")
        => /\ Snapshot(G') = Snapshot(G)
           /\ PropView(G') = PropView(G)]_vars

\* a second run in a row, over a graph where the first run propagated an
\* edge and found a convergent architecture edge
C1_Witness ==
    /\ rerun
    /\ \E p \in PropEdgeIds(G) : edges[p].counter >= 1
    /\ \E a \in ArchEdgeIds(G) : edges[a].state = Convergent

Structure(g) ==
    [i \in ArchEdgeIds(g) \cup ImplEdgeIds(g) |->
        <<g.edges[i].from, g.edges[i].to, g.edges[i].kind, g.edges[i].subgraph>>]

\* the handles in S, ascending (the order add_edge handed them out)
RECURSIVE Ascending(_)
Ascending(S) ==
    IF S = {} THEN <<>>
    ELSE LET m == CHOOSE x \in S : \A y \in S : x <= y
         IN  <<m>> \o Ascending(S \ {m})

\* a graph built from nothing: the edges of `struct` added in the order `ks`,
\* the mapping set to `maps`
RECURSIVE BuildFresh(_, _, _)
BuildFresh(g, ks, struct) ==
    IF ks = <<>> THEN g
    ELSE LET t == struct[Head(ks)]
         IN  BuildFresh(add_edge(g, mk_edge(t[1], t[2], t[4], t[3])).g, Tail(ks), struct)

FreshGraph(struct, maps) ==
    BuildFresh([EmptyGraph EXCEPT !.maps_to = maps], Ascending(DOMAIN struct), struct)

\* (source, target, kind) -> state and counter of the propagated edges
PropStates(g) ==
    {<<Triple(g, p), g.edges[p].state, g.edges[p].counter>> : p \in PropEdgeIds(g)}

\* g carries the states and counters a graph built from nothing with g's
\* edges and mapping gets from one run_from_scratch(): the k-th edge added to
\* the fresh graph answers to the k-th architecture/implementation edge of g
MatchesFresh(g) ==
    LET struct == Structure(g)
        ks == Ascending(DOMAIN struct)
        g0 == FreshGraph(struct, g.maps_to)
    IN  \A o \in Orders(ImplEdgeIds(g0)) :
        \A f \in run_from_scratch(g0, o) :
            /\ \A k \in 1..Len(ks) :
                /\ f.edges[k].state = g.edges[ks[k]].state
                /\ f.edges[k].counter = g.edges[ks[k]].counter
            /\ PropStates(f) = PropStates(g)

\* C3 (incremental equivalence): after add_impl_edge_and_recompute(e) the
\* graph holds the earlier architecture and implementation edges plus e under
\* the returned handle, after remove_impl_edge_and_recompute(id) it holds them
\* without id, and in both cases the states and counters are those of a graph
\* built from nothing with these edges and classified by one run_from_scratch().
C3_IncrementalEquivalence ==
    [][/\ (last'.op = "add_impl_edge_and_recompute" /\ IsOk(last'.res))
            => /\ last'.res.id \notin DOMAIN edges
               /\ last'.res.id \in ImplEdgeIds(G')
               /\ Structure(G') = Put(Structure(G), last'.res.id,
                                      Structure(G')[last'.res.id])
               /\ MatchesFresh(G')
       /\ (last'.op = "remove_impl_edge_and_recompute" /\ IsOk(last'.res))
            => /\ Structure(G') = Drop(Structure(G), {last'.arg})
               /\ MatchesFresh(G')]_vars

\* an edge added to a graph that earlier calls had classified already, the
\* new edge landing on an architecture edge another edge converges on too
C3_Witness ==
    /\ last.op = "add_impl_edge_and_recompute"
    /\ IsOk(last.res)
    /\ edges[last.res.id].state = Allowed
    /\ \E a \in ArchEdgeIds(G) : edges[a].counter = 2

\* C4 (add/remove round trip): run_from_scratch(), then
\* add_impl_edge_and_recompute(e), then remove_impl_edge_and_recompute of the
\* returned handle: every architecture and implementation edge other than e
\* has the state and counter the baseline run gave it.
C4_RoundTrip == rt.stage = 3 => Snapshot(G) = rt.base

\* a round trip whose add had changed the state or counter of a baseline edge
C4_Witness ==
    /\ rt.stage = 3
    /\ \E i \in DOMAIN rt.base : rt.mid[i] # rt.base[i]

\* C5, as claimed: after run_from_scratch() every architecture edge is
\* Convergent if some implementation edge with both endpoints mapped projects
\* onto exactly its (source, target, kind), and Absent otherwise, with counter
\* 0 when there is no implementation edge at all.
C5_AsClaimed ==
    AfterRun =>
        \A a \in ArchEdgeIds(G) :
            /\ edges[a].state = IF Projecting(G, Triple(G, a)) # {}
                                THEN Convergent ELSE Absent
            /\ ImplEdgeIds(G) = {} => edges[a].counter = 0

\* C6 (exact triple match): after run_from_scratch() an implementation edge
\* with both endpoints mapped is Allowed if an Architecture edge has exactly
\* its mapped (source, target, kind), and Divergent otherwise; the same
\* endpoints with another kind, or reversed endpoints, do not match.
C6_ExactTripleMatch ==
    AfterRun =>
        \A i \in ImplEdgeIds(G) :
            Mapped(G, i) =>
                edges[i].state =
                    IF \E a \in ArchEdgeIds(G) : Triple(G, a) = MappedTriple(G, i)
                    THEN Allowed ELSE Divergent

\* a run that left one edge Allowed and another Divergent although an
\* architecture edge of its kind joins the same two nodes the other way round
C6_Witness ==
    /\ AfterRun
    /\ \E i \in ImplEdgeIds(G) : edges[i].state = Allowed
    /\ \E j \in ImplEdgeIds(G) :
        /\ Mapped(G, j)
        /\ edges[j].state = Divergent
        /\ \E a \in ArchEdgeIds(G) :
            Triple(G, a) = <<MappedTriple(G, j)[2], MappedTriple(G, j)[1],
                             MappedTriple(G, j)[3]>>

\* C7, as claimed: after run_from_scratch() the counter of every architecture
\* edge is the number of implementation edges in the graph whose mapped
\* (source, target, kind) is that edge's.
C7_AsClaimed ==
    AfterRun =>
        \A a \in ArchEdgeIds(G) :
            edges[a].counter = Cardinality(Projecting(G, Triple(G, a)))

\* C8 (counter-provenance consistency): after run_from_scratch() and after
\* every successful add_impl_edge_and_recompute /
\* remove_impl_edge_and_recompute, the counter of every propagated edge is the
\* size of its provenance set.
C8_CounterIsProvenanceSize ==
    AfterRecompute =>
        \A p \in PropEdgeIds(G) : edges[p].counter = Cardinality(Prov(G, p))

\* two implementation edges recorded on one propagated edge
C8_Witness ==
    /\ AfterRecompute
    /\ \E p \in PropEdgeIds(G) : Cardinality(Prov(G, p)) = 2

\* a successful direct call of the propagation or the lifting engine
DirectCall(c) ==
    /\ c.op \in {"propagate_impl_edge", "propagate_and_lift"}
    /\ IsOk(c.res)

\* C9, as claimed: a further propagate_impl_edge / propagate_and_lift call for
\* an implementation edge already recorded in the provenance set of a
\* propagated edge, with no reset in between, leaves that propagated edge's
\* counter equal to the size of its provenance set, and leaves no
\* architecture edge counting more implementation edges than project onto it.
C9_AsClaimed ==
    [][DirectCall(last') =>
        \A p \in PropEdgeIds(G) :
            (/\ last'.arg \in Prov(G, p)
             /\ edges[p].counter = Cardinality(Prov(G, p))
             /\ \A a \in ArchEdgeIds(G) :
                  edges[a].counter <= Cardinality(Projecting(G, Triple(G, a))))
            => /\ p \in PropEdgeIds(G')
               /\ edges'[p].counter = Cardinality(Prov(G', p))
               /\ \A a \in ArchEdgeIds(G') :
                    edges'[a].counter
                        <= Cardinality(Projecting(G', Triple(G', a)))]_vars

\* the implementation edge of the last call has an endpoint without mapping
UnmappedArg(g, c) ==
    /\ c.op = "propagate_impl_edge"
    /\ c.arg \in ImplEdgeIds(g)
    /\ ~Mapped(g, c.arg)

\* C10 (mapping totality boundary): propagate_impl_edge on an implementation
\* edge whose source or target is unmapped succeeds, sets that edge's state to
\* Unmapped and changes nothing else: no edge is created, the propagation
\* table and the adjacency stay as they were, and no counter changes.
C10_UnmappedBoundary ==
    [][UnmappedArg(G, last') =>
        /\ IsOk(last'.res)
        /\ G' = [G EXCEPT !.edges[last'.arg].state = Unmapped]]_vars

\* the call marked an edge Unmapped that an earlier call, made while both
\* endpoints were mapped, had recorded on a propagated edge
C10_Witness ==
    /\ UnmappedArg(G, last)
    /\ edges[last.arg].state = Unmapped
    /\ \E p \in PropEdgeIds(G) : last.arg \in Prov(G, p) /\ edges[p].counter = 1

\* C11 (de-duplication): in every reachable state no two Propagated edges
\* have the same (source, target, kind); after a recompute every
\* implementation edge with both endpoints mapped is in the provenance set of
\* the propagated edge of its mapped triple, so a second implementation edge
\* mapping onto a triple reuses the edge the first one created.
C11_OnePropagatedEdgePerTriple ==
    /\ \A p, q \in PropEdgeIds(G) : Triple(G, p) = Triple(G, q) => p = q
    /\ AfterRecompute =>
        \A i \in ImplEdgeIds(G) :
            Mapped(G, i) =>
                \E p \in PropEdgeIds(G) :
                    Triple(G, p) = MappedTriple(G, i) /\ i \in Prov(G, p)

\* two implementation edges with different endpoints of their own, mapped
\* onto one triple and recorded on the same propagated edge
C11_Witness ==
    /\ AfterRecompute
    /\ \E i, j \in ImplEdgeIds(G) :
        /\ Triple(G, i) # Triple(G, j)
        /\ \E p \in PropEdgeIds(G) : {i, j} \subseteq Prov(G, p)

\* C12 (disjoint subgraphs): in every reachable state, for every
\* (source, target, kind), get_or_create_propagated_edge succeeds with the
\* handle of a Propagated edge of that triple, never of an Architecture edge;
\* when no Propagated edge of the triple exists yet, also when an Architecture
\* edge of the triple does, the handle is new and the edge has state Undefined
\* and counter 0. lift_exact returns none or an Architecture edge of the
\* triple, never a Propagated edge.
C12_DisjointSubgraphs ==
    \A f \in ArchNodes, t \in ArchNodes, k \in EdgeKind :
        LET r == get_or_create_propagated_edge(G, f, t, k)
            m == lift_exact(G, f, t, k)
        IN  /\ IsOk(r.res)
            /\ r.res.id \in PropEdgeIds(r.g)
            /\ Triple(r.g, r.res.id) = <<f, t, k>>
            /\ (\A p \in PropEdgeIds(G) : Triple(G, p) # <<f, t, k>>)
                => /\ r.res.id \notin DOMAIN edges
                   /\ r.g.edges[r.res.id].state = Undefined
                   /\ r.g.edges[r.res.id].counter = 0
            /\ IsOk(m)
            /\ m.id # None =>
                m.id \in ArchEdgeIds(G) /\ Triple(G, m.id) = <<f, t, k>>

\* an Architecture edge and a Propagated edge with the same triple side by
\* side, the Architecture edge found by lift_exact
C12_Witness ==
    \E a \in ArchEdgeIds(G), p \in PropEdgeIds(G) :
        /\ Triple(G, a) = Triple(G, p)
        /\ edges[a].state = Convergent
        /\ edges[p].state = Allowed

\* C13 (strict mapping): set_mapping(i, a), i an Implementation node and a an
\* Architecture node: when i is mapped to another node it fails with the
\* mapping-conflict error carrying i, the old target and a, and the table is
\* unchanged; when i is mapped to a it succeeds and the table is unchanged;
\* when i is unmapped it succeeds and the table gains exactly i -> a.
C13_StrictMapping ==
    [][(/\ last'.op = "set_mapping"
        /\ last'.arg \in ImplNodes
        /\ last'.arg2 \in ArchNodes)
        => LET i == last'.arg
               a == last'.arg2
           IN  IF i \notin DOMAIN maps_to
               THEN /\ last'.res = OkRes
                    /\ maps_to' = Put(maps_to, i, a)
               ELSE IF maps_to[i] = a
               THEN /\ last'.res = OkRes
                    /\ maps_to' = maps_to
               ELSE /\ last'.res = MappingAlreadyExists(i, maps_to[i], a)
                    /\ maps_to' = maps_to]_vars

\* a strict insert refused because the node was mapped elsewhere
C13_Witness ==
    /\ last.op = "set_mapping"
    /\ last.res.tag = "MappingAlreadyExists"
    /\ last.res.old # last.res.new
    /\ maps_to[last.arg] = last.res.old

\* C14: set_mapping_overwrite(i, a), i an Implementation node and a an
\* Architecture node, succeeds and returns the previous target of i (none if
\* i was unmapped); afterwards get_arch_node(i) returns a, and the entries of
\* the other implementation nodes are as before.
C14_Overwrite ==
    [][(/\ last'.op = "set_mapping_overwrite"
        /\ last'.arg \in ImplNodes
        /\ last'.arg2 \in ArchNodes)
        => LET i == last'.arg
               a == last'.arg2
           IN  /\ last'.res = OkVal(IF i \in DOMAIN maps_to THEN maps_to[i] ELSE None)
               /\ get_arch_node(G', i) = OkVal(a)
               /\ DOMAIN maps_to' = DOMAIN maps_to \cup {i}
               /\ \A j \in DOMAIN maps_to' \ {i} : maps_to'[j] = maps_to[j]]_vars

\* an overwrite that replaced another target while a second node was mapped
C14_Witness ==
    /\ last.op = "set_mapping_overwrite"
    /\ IsOk(last.res)
    /\ last.res.id \notin {None, last.arg2}
    /\ maps_to[last.arg] = last.arg2
    /\ DOMAIN maps_to # {last.arg}

\* the mapping operations that take an implementation node
TakesImplNode ==
    {"set_mapping", "set_mapping_overwrite", "get_arch_node", "is_mapped",
     "remove_mapping"}

\* C15: each of set_mapping, set_mapping_overwrite, get_arch_node, is_mapped
\* and remove_mapping, called with a node outside the Implementation
\* subgraph, fails with the subgraph-mismatch error naming that node, expected
\* Implementation and the node's subgraph; set_mapping and
\* set_mapping_overwrite, called with an Implementation node and a target
\* outside the Architecture subgraph, fail with the error naming the target,
\* expected Architecture and the target's subgraph. The mapping table is
\* unchanged in each of these cases.
C15_SubgraphMismatch ==
    [][/\ (last'.op \in TakesImplNode /\ last'.arg \notin ImplNodes)
            => /\ last'.res = WrongSubgraph(last'.arg, Implementation,
                                            node_subgraph(last'.arg))
               /\ maps_to' = maps_to
       /\ (/\ last'.op \in {"set_mapping", "set_mapping_overwrite"}
           /\ last'.arg \in ImplNodes
           /\ last'.arg2 \notin ArchNodes)
            => /\ last'.res = WrongSubgraph(last'.arg2, Architecture,
                                            node_subgraph(last'.arg2))
               /\ maps_to' = maps_to]_vars

\* an overwrite of a mapped node refused for its target, the entry kept
C15_Witness ==
    /\ last.op = "set_mapping_overwrite"
    /\ last.res.tag = "WrongSubgraph"
    /\ last.res.expected = Architecture
    /\ last.arg \in DOMAIN maps_to

\* C16: in every state reached through set_mapping, set_mapping_overwrite,
\* remove_mapping and clear_mappings calls, failed ones included, every entry
\* of the mapping table maps an Implementation node to an Architecture node,
\* and validate_all_mappings() can only return Ok.
C16_MappingWellTyped ==
    /\ \A i \in DOMAIN maps_to :
        /\ node_subgraph(i) = Implementation
        /\ node_subgraph(maps_to[i]) = Architecture
    /\ validate_all_mappings(G) = {OkRes}

\* a full table right after a refused call
C16_Witness ==
    /\ last.op \in {"set_mapping", "set_mapping_overwrite", "remove_mapping"}
    /\ ~IsOk(last.res)
    /\ DOMAIN maps_to = ImplNodes

\* C17 (mapping persists): run_from_scratch(), add_impl_edge_and_recompute
\* and remove_impl_edge_and_recompute leave the mapping table as it was, also
\* when the endpoints of the removed edge are mapped; propagate_impl_edge and
\* propagate_and_lift, called on any implementation edge in any reachable
\* state, return with the mapping table as it was.
C17_MappingPersists ==
    [][/\ last'.op \in {"run_from_scratch", "add_impl_edge_and_recompute",
                        "remove_impl_edge_and_recompute"}
            => maps_to' = maps_to
       /\ \A id \in ImplEdgeIds(G) :
            /\ propagate_impl_edge(G, id).g.maps_to = maps_to
            /\ \A o \in propagate_and_lift(G, id) : o.g.maps_to = maps_to]_vars

\* an edge was removed while both implementation nodes were mapped
C17_Witness ==
    /\ last.op = "remove_impl_edge_and_recompute"
    /\ IsOk(last.res)
    /\ DOMAIN maps_to = ImplNodes

\* C18 (edge state machine): after run_from_scratch() every architecture edge
\* is Convergent or Absent, every implementation edge is Allowed, Divergent
\* or Unmapped, and every propagated edge is Allowed or Divergent.
C18_TerminalStates ==
    AfterRun =>
        /\ \A a \in ArchEdgeIds(G) : edges[a].state \in {Convergent, Absent}
        /\ \A i \in ImplEdgeIds(G) : edges[i].state \in {Allowed, Divergent, Unmapped}
        /\ \A p \in PropEdgeIds(G) : edges[p].state \in {Allowed, Divergent}

\* a run that ended with an Absent architecture edge, a Divergent
\* implementation edge and a Divergent propagated edge
C18_Witness ==
    /\ AfterRun
    /\ \E a \in ArchEdgeIds(G) : edges[a].state = Absent
    /\ \E i \in ImplEdgeIds(G) : edges[i].state = Divergent
    /\ \E p \in PropEdgeIds(G) : edges[p].state = Divergent

\* C19 (classification never fails): from every reachable state, for every
\* order in which run_from_scratch() can snapshot the implementation edges,
\* every propagate_and_lift call of its loop returns Ok; run_from_scratch()
\* itself has returned Ok whenever it was called.
C19_RunNeverFails ==
    /\ \A order \in Orders(ImplEdgeIds(G)) :
        \A r \in LoopResults({init_states(clear_propagated_edges(G))}, order) :
            IsOk(r)
    /\ AfterRun => IsOk(last.res)

\* a run over two mapped implementation edges, made right after another run
\* had left its propagated edges behind
C19_Witness ==
    /\ rerun
    /\ Cardinality(ImplEdgeIds(G)) >= 2
    /\ \A i \in ImplEdgeIds(G) : Mapped(G, i)
    /\ PropEdgeIds(G) # {}

\* the edges among ids whose state is Divergent or Absent
Violating(g, ids) == {i \in ids : g.edges[i].state \in {Divergent, Absent}}

\* C20: count_violations() is the number of Architecture, Implementation and
\* Propagated edges of the edge store whose state is Divergent or Absent;
\* after run_from_scratch() it is 0 exactly when every architecture edge is
\* Convergent and every implementation edge is Allowed or Unmapped.
C20_CountViolations ==
    /\ count_violations(G) = Cardinality(Violating(G, ArchEdgeIds(G)))
                             + Cardinality(Violating(G, ImplEdgeIds(G)))
                             + Cardinality(Violating(G, PropEdgeIds(G)))
    /\ AfterRun =>
        (count_violations(G) = 0
            <=> /\ \A a \in ArchEdgeIds(G) : edges[a].state = Convergent
                /\ \A i \in ImplEdgeIds(G) : edges[i].state \in {Allowed, Unmapped})

\* a run that left no violation on a graph with architecture and
\* implementation edges
C20_Witness ==
    /\ AfterRun
    /\ count_violations(G) = 0
    /\ ArchEdgeIds(G) # {}
    /\ \E i \in ImplEdgeIds(G) : edges[i].state = Allowed

\* the propagated edges and the propagation table of g are those of the
\* present mapping and edges: the table's keys are the propagated edges, and
\* each provenance set is, and is not empty, the set of implementation edges
\* projecting onto its edge
NothingStale(g) ==
    /\ DOMAIN g.propagation_table = PropEdgeIds(g)
    /\ \A p \in PropEdgeIds(g) :
        Prov(g, p) # {} /\ Prov(g, p) = Projecting(g, Triple(g, p))

\* C21 (no stale synthetic state): after run_from_scratch(), also when it
\* follows mapping edits or removals made after an earlier run, states and
\* counters of all edges and the propagated edges are those of a graph built
\* from nothing with the present edges and mapping and classified once, and
\* no propagated edge or provenance entry of the earlier run is left.
C21_NoStaleState ==
    AfterRun => MatchesFresh(G) /\ NothingStale(G)

\* a run taken from a state whose propagated edges had been derived under
\* another mapping
C21_Witness ==
    /\ AfterRun
    /\ rt.stale
    /\ PropEdgeIds(G) # {}

\* C22 (lifting alone is sufficient): in every run_from_scratch(), from any
\* reachable state and in any snapshot order, when
\* finalize_architecture_states() is called every architecture edge with
\* counter > 0 is Convergent already and none is Specified with counter > 0:
\* finalization changes nothing but Specified with counter 0 into Absent.
C22_LiftingSuffices ==
    \A order \in Orders(ImplEdgeIds(G)) :
    \A h \in BeforeFinalize(G, order) :
        LET f == finalize_architecture_states(h) IN
        \A a \in ArchEdgeIds(h) :
            /\ h.edges[a].counter > 0 => h.edges[a].state = Convergent
            /\ ~(h.edges[a].state = Specified /\ h.edges[a].counter > 0)
            /\ f.edges[a] # h.edges[a]
                => /\ h.edges[a].state = Specified
                   /\ h.edges[a].counter = 0
                   /\ f.edges[a] = [h.edges[a] EXCEPT !.state = Absent]

\* a run that lifted two implementation edges onto one architecture edge
\* and left another architecture edge to finalization
C22_Witness ==
    /\ AfterRun
    /\ \E a, b \in ArchEdgeIds(G) :
        /\ edges[a].state = Convergent
        /\ edges[a].counter = 2
        /\ edges[b].state = Absent

RejectsHandle(g, id, res) ==
    IF id \in DOMAIN g.edges
    THEN /\ res.tag = "WrongSubgraph"
         /\ res.expected = Implementation
         /\ res.found = g.edges[id].subgraph
    ELSE res = EdgeNotFound(id)

\* C25: propagate_impl_edge on an edge that is not of the Implementation
\* subgraph fails with subgraph-mismatch (expected Implementation, found the
\* edge's subgraph), and on a handle not in the store with edge-not-found; in
\* both cases the graph, edges, counters, propagated edges and propagation
\* table included, is unchanged.
C25_PropagateRejects ==
    [][(last'.op = "propagate_impl_edge" /\ last'.arg \notin ImplEdgeIds(G))
        => /\ RejectsHandle(G, last'.arg, last'.res)
           /\ G' = G]_vars

\* the handle of a propagated edge was refused
C25_Witness ==
    /\ last.op = "propagate_impl_edge"
    /\ last.res.tag = "WrongSubgraph"
    /\ last.arg \in PropEdgeIds(G)
    /\ last.res.found = Propagated

\* C26: add_impl_edge_and_recompute with an edge whose subgraph is not
\* Implementation returns subgraph-mismatch; remove_impl_edge_and_recompute
\* returns edge-not-found for a handle not in the store and subgraph-mismatch
\* for an Architecture or Propagated edge. In each case the graph is
\* unchanged: no edge added or removed, states, counters, adjacency and
\* propagation table as before, nothing recomputed.
C26_UpdatersReject ==
    [][/\ (/\ last'.op = "add_impl_edge_and_recompute"
           /\ last'.arg2 \in {Architecture, Propagated})
            => /\ last'.res = WrongSubgraph(last'.arg, Implementation, last'.arg2)
               /\ G' = G
       /\ (/\ last'.op = "remove_impl_edge_and_recompute"
           /\ last'.arg \notin ImplEdgeIds(G))
            => /\ RejectsHandle(G, last'.arg, last'.res)
               /\ G' = G]_vars

\* the handle of a propagated edge was refused while the propagated edges
\* were those of an earlier mapping, and they are still there
C26_Witness ==
    /\ last.op = "remove_impl_edge_and_recompute"
    /\ last.res.tag = "WrongSubgraph"
    /\ last.arg \in PropEdgeIds(G)
    /\ StaleSynthetic(G)

\* C27: after a successful remove_impl_edge_and_recompute(id), id is not in
\* the edge store, in no implementation adjacency list and in no provenance
\* set; and in every state reached through run_from_scratch and the
\* incremental updaters the keys of the propagation table are Propagated
\* edges of the store and the members of its sets Implementation edges of the
\* store.
C27_NoDanglingHandles ==
    /\ (last.op = "remove_impl_edge_and_recompute" /\ IsOk(last.res))
        => /\ last.arg \notin DOMAIN edges
           /\ \A n \in DOMAIN impl_out : last.arg \notin Range(impl_out[n])
           /\ \A p \in DOMAIN propagation_table : last.arg \notin propagation_table[p]
    /\ \A p \in DOMAIN propagation_table :
        /\ p \in PropEdgeIds(G)
        /\ propagation_table[p] \subseteq ImplEdgeIds(G)

\* the removed edge had been propagated, and another edge still is
C27_Witness ==
    /\ rt.stage = 3
    /\ rt.mid[rt.id][1] \in {Allowed, Divergent}
    /\ \E p \in DOMAIN propagation_table : propagation_table[p] # {}

\* the propagated edges whose provenance set holds implementation edge i
Holders(g, i) == {p \in DOMAIN g.propagation_table : i \in g.propagation_table[p]}

\* C29: in every state reached through run_from_scratch, the incremental
\* updaters and mapping edits, an implementation edge is in at most one
\* provenance set, in exactly one when its state is Allowed or Divergent and
\* in none when it is Unmapped.
C29_UniqueProvenance ==
    \A i \in ImplEdgeIds(G) :
        /\ Cardinality(Holders(G, i)) <= 1
        /\ edges[i].state \in {Allowed, Divergent} => Cardinality(Holders(G, i)) = 1
        /\ edges[i].state = Unmapped => Holders(G, i) = {}

\* a mapping edit has been made after a run: two edges are in one provenance
\* set, and one of them no longer projects onto its propagated edge
C29_Witness ==
    /\ last.op \in {"set_mapping_overwrite", "remove_mapping"}
    /\ \E p \in PropEdgeIds(G) :
        /\ Cardinality(Prov(G, p)) = 2
        /\ \E i \in Prov(G, p) :
            /\ i \in ImplEdgeIds(G)
            /\ edges[i].state \in {Allowed, Divergent}
            /\ ~(Mapped(G, i) /\ MappedTriple(G, i) = Triple(G, p))

\* C30: after run_from_scratch() every propagated edge has a non-empty
\* provenance set and a counter of at least 1, joins the architecture nodes
\* the endpoints of each implementation edge of that set are mapped to (with
\* that edge's kind), and is Allowed or Divergent exactly as each of those
\* implementation edges is.
C30_PropagatedEdgesExplained ==
    AfterRun =>
        \A p \in PropEdgeIds(G) :
            /\ Prov(G, p) # {}
            /\ edges[p].counter >= 1
            /\ edges[p].state \in {Allowed, Divergent}
            /\ \A i \in Prov(G, p) :
                /\ i \in ImplEdgeIds(G)
                /\ Mapped(G, i)
                /\ MappedTriple(G, i) = Triple(G, p)
                /\ edges[i].state = edges[p].state

\* a run has left an Allowed and a Divergent propagated edge, or one
\* propagated edge explained by two implementation edges
C30_Witness ==
    /\ AfterRun
    /\ \E p \in PropEdgeIds(G) : edges[p].state = Divergent /\ Prov(G, p) # {}
    /\ \/ \E q \in PropEdgeIds(G) : edges[q].state = Allowed
       \/ \E q \in PropEdgeIds(G) : Cardinality(Prov(G, q)) = 2

====
